---- MODULE Spec2Model ----
(***************************************************************************)
(* The multiplayer room coordinator of keyless-golf (src/src/roomManager.ts, *)
(* class RoomManager) as a state machine.                                   *)
(*                                                                          *)
(* The store (a JavaScript Map, which iterates in insertion order) is the   *)
(* sequence `rooms` of room records; the field `key` of a record is the key *)
(* of its Map entry, which no method changes, `id` is the room's own field. *)
(*   Every public method of RoomManager is *)
(* an operator over (store, arguments, clock reading) that returns the new  *)
(* store, the method's return value, the events it emitted and the store    *)
(* as the listeners of each event find it, and an action that applies it.   *)
(* Date.now() is the variable `now`.  A RoomManager starts with its sweep   *)
(* timer set and without listeners; `on` registers a listener for one       *)
(* event, removeAllListeners removes them all, shutdown removes them and    *)
(* clears the timer and the store.                                          *)
(*                                                                          *)
(* Player.name, Player.walletAddress, GameRoom.name and GameRoom.rewardAmount *)
(* are stored and passed through by the code and never read by it; they are *)
(* left out of the records.  Array indices are 0-based as in the source:    *)
(* players[i] of the source is players[i + 1] here.                         *)
(*                                                                          *)
(* The same methods are run under several specifications: Spec (one room,   *)
(* every game method, the clock and the sweep), SpecGame (longer games, no  *)
(* clock), SpecPlay (one match played by the book), SpecWinner (getWinner   *)
(* on one room of any content), SpecLobby (a room being filled), SpecStore  *)
(* (a store of several rooms that is swept, listed and read), SpecLive (a   *)
(* started match under fair recording and advancing) and SpecTouch (one     *)
(* room, the clock and every method that takes a room id).                  *)
(***************************************************************************)
EXTENDS Integers, Sequences, FiniteSets, TLC

VARIABLES
    rooms,      \* RoomManager.rooms: the rooms, in Map insertion order
    now,        \* the value Date.now() returns
    last,       \* the last call: method, arguments, return value, the events
                \* passed to emit (`emitted`), those of them that reached
                \* listeners (`events`) and what these found in the store
    pc,         \* position of the match of SpecPlay and SpecLive ("free" in Spec)
    advances,   \* nextTurn calls made by the scripted match since startGame
    timer,      \* the interval of the constructor is set (shutdown clears it)
    listeners   \* the events for which EventEmitter.events holds a listener

vars == <<rooms, now, last, pc, advances, timer, listeners>>

----------------------------------------------------------------------------
(* Bounds of the model *)

MaxRooms == 1           \* room ids that generateRoomId can draw
MaxPlayerId == 3        \* player ids callers use
MaxShots == 1           \* largest shotsPerPlayer passed to createRoom in Spec
MaxShotScore == 1       \* largest score passed to updatePlayerScore in Spec
MaxJoinScore == 0       \* largest score field of a player object passed to addPlayerToRoom
MaxOverdraw == 1        \* updatePlayerScore is not called below -MaxOverdraw shots
TickHours == 24         \* the clock advances in steps of this many hours
MaxTicks == 2           \* the clock stops after this many steps
GameMaxShots == 2       \* largest shotsPerPlayer in SpecGame
PlayMaxPlayers == 3     \* largest room of the scripted match of SpecPlay
PlayMaxShots == 3       \* largest shotsPerPlayer of the scripted match
PlayMaxShotScore == 2   \* largest score of a shot of the scripted match
WinnerMaxPlayers == 3   \* largest room getWinner is asked about in SpecWinner
WinnerMaxScore == 2     \* largest score of a player of that room
LobbyMaxPlayers == 3    \* player ids and largest maxPlayers in SpecLobby
LobbyMaxJoinScore == 1  \* largest score field of a player object passed in SpecLobby
StoreMaxRooms == 2      \* largest store of SpecStore
StoreTickHours == 24    \* the timestamps of SpecStore are multiples of this many hours
StoreMaxTicks == 2      \* the largest timestamp of SpecStore, in such steps
LiveMaxPlayers == 3     \* largest room of the match of SpecLive
LiveMaxShots == 2       \* largest shotsPerPlayer of that match
LiveMaxShotScore == 0   \* largest score of a shot of that match
TouchMaxPlayers == 2    \* player ids and maxPlayers of the room of SpecTouch
TouchMaxTicks == 2      \* the clock of SpecTouch stops after this many steps

RoomIds == 1..MaxRooms
PlayerIds == 1..MaxPlayerId
MaxPlayersOpts == 2..MaxPlayerId
ShotsOpts == 1..MaxShots
ShotScores == 1..MaxShotScore
JoinScores == 0..MaxJoinScore

HourMs == 60 * 60 * 1000
TickMs == TickHours * HourMs
maxInactiveTime == 24 * 60 * 60 * 1000

----------------------------------------------------------------------------
(* Helpers: Map and Array primitives *)

\* Array.prototype.findIndex(p => p.id === pid): 0-based, -1 when absent
findIndex(players, pid) ==
    IF \E i \in 1..Len(players) : players[i].id = pid
    THEN (CHOOSE i \in 1..Len(players) :
              /\ players[i].id = pid
              /\ \A j \in 1..(i - 1) : players[j].id # pid) - 1
    ELSE -1

\* position of the room in the Map (1-based), 0 when rooms.get(roomId) is undefined
roomIndex(rs, rid) ==
    IF \E i \in 1..Len(rs) : rs[i].key = rid
    THEN CHOOSE i \in 1..Len(rs) : rs[i].key = rid
    ELSE 0

\* rooms.set(roomId, room) for a key already present: the entry keeps its place
setRoom(rs, room) ==
    [i \in 1..Len(rs) |-> IF rs[i].key = room.key THEN room ELSE rs[i]]

\* rooms.delete(roomId)
deleteRoom(rs, rid) == SelectSeq(rs, LAMBDA r : r.key # rid)

\* players.splice(index, 1), index 0-based
splice(players, index) ==
    [i \in 1..(Len(players) - 1) |->
        IF i <= index THEN players[i] ELSE players[i + 1]]

\* removePlayerFromRoom testing only for an empty list
allDisconnected_mut(players) == FALSE

\* players.every(p => !p.isConnected)
allDisconnected(players) ==
    \A i \in 1..Len(players) : ~players[i].isConnected

\* the new host taken from the head of the list, connected or not
firstConnectedId_mut(players, dflt) ==
    IF Len(players) > 0 THEN players[1].id ELSE dflt

\* the loop `for (const player of room.players) if (player.isConnected) ...; break`
firstConnectedId(players, dflt) ==
    IF \E i \in 1..Len(players) : players[i].isConnected
    THEN players[CHOOSE i \in 1..Len(players) :
                    /\ players[i].isConnected
                    /\ \A j \in 1..(i - 1) : ~players[j].isConnected].id
    ELSE dflt

\* the outcome of a method whose `this.emit` calls come after its last write
\* to the store: `seen` holds, per event, the store as the listeners find it
\* (emit runs them before it returns)
Result(rs, ret, events) ==
    [rooms |-> rs, ret |-> ret, events |-> events,
     seen |-> [i \in 1..Len(events) |-> rs]]

\* the outcome of a method that throws (a TypeError on a room without
\* players): nothing is returned or emitted, `rs` holds what was written
\* before
Thrown(rs) ==
    [rooms |-> rs, ret |-> FALSE, events |-> <<>>, seen |-> <<>>,
     thrown |-> TRUE]

\* the outcome of a method that emits before its last write
Emitted(rs, ret, events, seen) ==
    [rooms |-> rs, ret |-> ret, events |-> events, seen |-> seen]

\* the outcome of a method that returns an object or an array: `value` is the
\* array, or <<object>>, or <<>> for null, and `ret` tells null from the rest
Answer(rs, ret, value) ==
    [rooms |-> rs, ret |-> ret, events |-> <<>>, seen |-> <<>>, value |-> value]

\* removePlayerFromRoom, with the emptiness test left out
mustRemoveRoom_mut(players) == FALSE

\* the test `room.players.length === 0 || room.players.every(p => !p.isConnected)`
mustRemoveRoom(players) ==
    Len(players) = 0 \/ allDisconnected(players)

\* nextTurn, with the loop that clears the flags left out
setTurn_mut(players, index) ==
    [players EXCEPT ![index + 1].isCurrentTurn = TRUE]

\* `for (const player of room.players) player.isCurrentTurn = false;
\*  nextPlayer.isCurrentTurn = true`, nextPlayer being players[index]
setTurn(players, index) ==
    [i \in 1..Len(players) |->
        [players[i] EXCEPT !.isCurrentTurn = (i = index + 1)]]

\* nextTurn as roomInterface.ts has it: the connection is not looked at
skipPlayer_mut(player) == player.shotsRemaining <= 0

\* the loop condition of nextTurn: this candidate cannot take the turn
skipPlayer(player) ==
    player.shotsRemaining <= 0 \/ ~player.isConnected

\* nextTurn giving up after three passes
gameOver_late(fullLoopCount) == fullLoopCount > 2

\* nextTurn giving up after one pass instead of two
gameOver_mut(fullLoopCount) == fullLoopCount > 0

\* `if (fullLoopCount > 1)`: the scan gives up, the game is over
gameOver(fullLoopCount) == fullLoopCount > 1

\* updatePlayerScore without `player.shotsRemaining--`
applyShot_kept(player, score) ==
    [player EXCEPT !.score = @ + score]

\* updatePlayerScore with `=` for `+=`
applyShot_mut(player, score) ==
    [player EXCEPT !.score = score, !.shotsRemaining = @ - 1]

\* `player.score += score; player.shotsRemaining--`
applyShot(player, score) ==
    [player EXCEPT !.score = @ + score, !.shotsRemaining = @ - 1]

\* updatePlayerScore with the turn check left out
mayScore_mut(player) == TRUE

\* the test of `if (!player.isCurrentTurn) return false`
mayScore(player) == player.isCurrentTurn

\* removePlayerFromRoom never looking for a new host
hostLeft_mut(playerId, room) == FALSE

\* the test `playerId === room.hostId && room.players.length > 0`
hostLeft(playerId, room) ==
    playerId = room.hostId /\ Len(room.players) > 0

\* removePlayerFromRoom taking the player out of the list during a game
leaveGame_mut(players, playerIndex) == splice(players, playerIndex)

\* `room.players[playerIndex].isConnected = false`: the player keeps its place
leaveGame(players, playerIndex) ==
    [players EXCEPT ![playerIndex + 1].isConnected = FALSE]

\* a reconnection that resumes: the score the player had is kept
rejoin_mut(existing, player, room) ==
    [player EXCEPT !.score = existing.score,
                   !.shotsRemaining = room.shotsPerPlayer,
                   !.isConnected = TRUE]

\* `{ ...player, shotsRemaining: room.shotsPerPlayer, isConnected: true }`,
\* which takes the place of `existing` = room.players[existingPlayerIndex]
rejoin(existing, player, room) ==
    [player EXCEPT !.shotsRemaining = room.shotsPerPlayer,
                   !.isConnected = TRUE]

\* nextTurn ending the game as soon as one player cannot play on
allShotsUsed_mut(players) ==
    \E i \in 1..Len(players) :
        players[i].shotsRemaining <= 0 \/ ~players[i].isConnected

\* `room.players.every(p => p.shotsRemaining <= 0 || !p.isConnected)`
allShotsUsed(players) ==
    \A i \in 1..Len(players) :
        players[i].shotsRemaining <= 0 \/ ~players[i].isConnected

\* resetGame forgetting the scores
resetPlayer_mut(player, room, first) ==
    [player EXCEPT !.shotsRemaining = room.shotsPerPlayer,
                   !.isCurrentTurn = first]

\* what resetGame does to one player; `first` tells players[0] from the rest
resetPlayer(player, room, first) ==
    [player EXCEPT !.score = 0,
                   !.shotsRemaining = room.shotsPerPlayer,
                   !.isCurrentTurn = first]

\* startGame content with a single player
enoughPlayers_mut(players) == Len(players) >= 1

\* the negation of `room.players.length < 2`
enoughPlayers(players) == ~(Len(players) < 2)

\* addPlayerToRoom letting one player too many in
roomFull_mut(room) == Len(room.players) > room.maxPlayers

\* the test `room.players.length >= room.maxPlayers`
roomFull(room) == Len(room.players) >= room.maxPlayers

\* the sweep taking a room at exactly 24 hours
stale_mut(room, t) == t - room.lastActivity >= maxInactiveTime

\* the test `now - room.lastActivity > maxInactiveTime` of cleanupInactiveRooms
stale(room, t) == t - room.lastActivity > maxInactiveTime

\* removeRoom with the membership test left out
hasRoom_mut(rs, rid) == TRUE

\* rooms.has(roomId)
hasRoom(rs, rid) == roomIndex(rs, rid) # 0

\* getWinner comparing with `>=`: a later equal score takes the title
beats_mut(score, highestScore) == score >= highestScore

\* the test `player.score > highestScore` of getWinner
beats(score, highestScore) == score > highestScore

\* getActiveRooms with `<=` for `<`
isActive_mut(room, t) ==
    \/ room.status = "waiting"
    \/ room.status = "playing" /\ t - room.lastActivity <= maxInactiveTime

\* the filter of getActiveRooms
isActive(room, t) ==
    \/ room.status = "waiting"
    \/ room.status = "playing" /\ t - room.lastActivity < maxInactiveTime

----------------------------------------------------------------------------
(* The methods of RoomManager *)

removeRoom(rs, rid) ==
    IF ~hasRoom(rs, rid)
    THEN Result(rs, FALSE, <<>>)
    ELSE Result(deleteRoom(rs, rid), TRUE, <<"roomRemoved">>)

RECURSIVE cleanupFrom(_, _, _)
\* rooms.forEach over the entries from position i on, removing the stale ones
cleanupFrom(rs, i, t) ==
    IF i > Len(rs) THEN Result(rs, TRUE, <<>>)
    ELSE IF stale(rs[i], t)
         THEN LET removed == removeRoom(rs, rs[i].key)
                  rest == cleanupFrom(removed.rooms, i, t)
              IN  Emitted(rest.rooms, TRUE, removed.events \o rest.events,
                          removed.seen \o rest.seen)
         ELSE cleanupFrom(rs, i + 1, t)

cleanupInactiveRooms(rs, t) == cleanupFrom(rs, 1, t)

createRoom(rs, rid, hostId, maxPlayers, shotsPerPlayer, t) ==
    LET room == [ key |-> rid,
                  id |-> rid,
                  hostId |-> hostId,
                  players |-> << [ id |-> hostId,
                                   score |-> 0,
                                   shotsRemaining |-> shotsPerPlayer,
                                   isConnected |-> TRUE,
                                   isCurrentTurn |-> TRUE ] >>,
                  maxPlayers |-> maxPlayers,
                  status |-> "waiting",
                  currentPlayerIndex |-> 0,
                  shotsPerPlayer |-> shotsPerPlayer,
                  created |-> t,
                  lastActivity |-> t ]
    IN  Result(Append(rs, room), TRUE, <<"roomCreated">>)

addPlayerToRoom(rs, rid, player, t) ==
    LET ri == roomIndex(rs, rid) IN
    IF ri = 0 THEN Result(rs, FALSE, <<>>)
    ELSE LET room == rs[ri] IN
    IF roomFull(room) THEN Result(rs, FALSE, <<>>)
    ELSE IF room.status # "waiting" THEN Result(rs, FALSE, <<>>)
    ELSE LET existingPlayerIndex == findIndex(room.players, player.id)
             players2 ==
                 IF existingPlayerIndex >= 0
                 THEN [room.players EXCEPT ![existingPlayerIndex + 1] =
                          rejoin(@, player, room)]
                 ELSE Append(room.players,
                          [player EXCEPT !.score = 0,
                                         !.shotsRemaining = room.shotsPerPlayer,
                                         !.isConnected = TRUE,
                                         !.isCurrentTurn = FALSE])
         IN  Result(setRoom(rs, [room EXCEPT !.players = players2,
                                             !.lastActivity = t]),
                    TRUE, <<"playerJoined">>)

RECURSIVE scanNext(_, _, _, _)
\* the do-while loop of nextTurn, entered with nextPlayerIndex = idx,
\* fullLoopCount = loops, after `steps` iterations
scanNext(players, idx, loops, steps) ==
    LET nextPlayerIndex == (idx + 1) % Len(players)
        fullLoopCount == IF nextPlayerIndex = 0 THEN loops + 1 ELSE loops
        nextPlayer == players[nextPlayerIndex + 1]
    IN  IF gameOver(fullLoopCount)
        THEN [found |-> FALSE, index |-> nextPlayerIndex, steps |-> steps + 1]
        ELSE IF skipPlayer(nextPlayer)
             THEN scanNext(players, nextPlayerIndex, fullLoopCount, steps + 1)
             ELSE [found |-> TRUE, index |-> nextPlayerIndex, steps |-> steps + 1]

\* nextTurn on the room object once `room` is found and its status is playing
nextTurnRoom(room, t) ==
    LET sc == scanNext(room.players, room.currentPlayerIndex, 0, 0) IN
    IF ~sc.found
    THEN LET done == [room EXCEPT !.status = "completed", !.lastActivity = t]
         IN  [room |-> done, ret |-> TRUE, events |-> <<"gameCompleted">>,
              atEmit |-> done]
    ELSE LET players2 == setTurn(room.players, sc.index)
             over == allShotsUsed(players2)
             \* the room when `this.emit` runs, lastActivity not yet written
             moved == [room EXCEPT
                          !.players = players2,
                          !.currentPlayerIndex = sc.index,
                          !.status = IF over THEN "completed" ELSE @]
         IN  [room |-> [moved EXCEPT !.lastActivity = t],
              ret |-> TRUE,
              events |-> IF over THEN <<"gameCompleted">>
                                         ELSE <<"turnChanged">>,
              atEmit |-> moved]

nextTurn(rs, rid, t) ==
    LET ri == roomIndex(rs, rid) IN
    IF ri = 0 THEN Result(rs, FALSE, <<>>)
    ELSE IF rs[ri].status # "playing" THEN Result(rs, FALSE, <<>>)
    \* players[NaN] is undefined: the loop test reads a property of it
    ELSE IF Len(rs[ri].players) = 0 THEN Thrown(rs)
    ELSE LET r == nextTurnRoom(rs[ri], t)
         IN  Emitted(setRoom(rs, r.room), r.ret, r.events,
                     <<setRoom(rs, r.atEmit)>>)

removePlayerFromRoom(rs, rid, playerId, t) ==
    LET ri == roomIndex(rs, rid) IN
    IF ri = 0 THEN Result(rs, FALSE, <<>>)
    ELSE LET room == rs[ri]
             playerIndex == findIndex(room.players, playerId) IN
    IF playerIndex = -1 THEN Result(rs, FALSE, <<>>)
    ELSE LET marked == [room EXCEPT !.players = leaveGame(room.players, playerIndex)]
             \* the nested this.nextTurn(roomId) acts on the same room object
             nested == IF room.players[playerIndex + 1].isCurrentTurn
                       THEN nextTurnRoom(marked, t)
                       ELSE [room |-> marked, ret |-> TRUE, events |-> <<>>,
                             atEmit |-> marked]
             room1 == IF room.status = "playing"
                      THEN nested.room
                      ELSE [room EXCEPT !.players = splice(room.players, playerIndex)]
             events1 == IF room.status = "playing" THEN nested.events ELSE <<>>
             \* what the listeners of the nested nextTurn find in the store
             seen1 == [i \in 1..Len(events1) |-> setRoom(rs, nested.atEmit)]
         IN  IF mustRemoveRoom(room1.players)
             THEN LET removed == removeRoom(rs, rid)
                  IN  Emitted(removed.rooms, TRUE, events1 \o removed.events,
                              seen1 \o removed.seen)
             ELSE LET room2 ==
                          IF hostLeft(playerId, room1)
                          THEN [room1 EXCEPT !.hostId =
                                   firstConnectedId(room1.players, room1.hostId)]
                          ELSE room1
                      rs2 == setRoom(rs, [room2 EXCEPT !.lastActivity = t])
                  IN  Emitted(rs2, TRUE, events1 \o <<"playerLeft">>,
                              seen1 \o <<rs2>>)

startGame(rs, rid, t) ==
    LET ri == roomIndex(rs, rid) IN
    IF ri = 0 THEN Result(rs, FALSE, <<>>)
    ELSE LET room == rs[ri] IN
    IF ~enoughPlayers(room.players) THEN Result(rs, FALSE, <<>>)
    ELSE Result(setRoom(rs, [room EXCEPT
                    !.status = "playing",
                    !.currentPlayerIndex = 0,
                    !.players = [i \in 1..Len(room.players) |->
                                    [room.players[i] EXCEPT !.isCurrentTurn = (i = 1)]],
                    !.lastActivity = t]),
                TRUE, <<"gameStarted">>)

updatePlayerScore(rs, rid, playerId, score, t) ==
    LET ri == roomIndex(rs, rid) IN
    IF ri = 0 THEN Result(rs, FALSE, <<>>)
    ELSE LET room == rs[ri]
             pi == findIndex(room.players, playerId) IN
    IF pi = -1 THEN Result(rs, FALSE, <<>>)
    ELSE IF ~mayScore(room.players[pi + 1]) THEN Result(rs, FALSE, <<>>)
    ELSE Result(setRoom(rs, [room EXCEPT
                    !.players[pi + 1] = applyShot(@, score),
                    !.lastActivity = t]),
                TRUE, <<"scoreUpdated">>)

resetGame(rs, rid, t) ==
    LET ri == roomIndex(rs, rid) IN
    IF ri = 0 THEN Result(rs, FALSE, <<>>)
    ELSE LET room == rs[ri] IN
         \* `room.players[0].isCurrentTurn = true` on an empty list, after the
         \* status and the index are written
         IF Len(room.players) = 0
         THEN Thrown(setRoom(rs, [room EXCEPT !.status = "waiting",
                                              !.currentPlayerIndex = 0]))
         ELSE
         Result(setRoom(rs, [room EXCEPT
                    !.players = [i \in 1..Len(room.players) |->
                                    resetPlayer(room.players[i], room, i = 1)],
                    !.status = "waiting",
                    !.currentPlayerIndex = 0,
                    !.lastActivity = t]),
                TRUE, <<"gameReset">>)

\* getRoom returns the room object it has just refreshed, or null
getRoom(rs, rid, t) ==
    LET ri == roomIndex(rs, rid) IN
    IF ri = 0 THEN Answer(rs, FALSE, <<>>)
    ELSE LET room == [rs[ri] EXCEPT !.lastActivity = t]
         IN  Answer(setRoom(rs, room), TRUE, <<room>>)

RECURSIVE insertByCreated(_, _)
\* `room` placed in a list ordered by `b.created - a.created`, behind the
\* entries that compare equal to it (Array.prototype.sort is stable)
insertByCreated(sorted, room) ==
    IF sorted = <<>> THEN <<room>>
    ELSE IF Head(sorted).created >= room.created
         THEN <<Head(sorted)>> \o insertByCreated(Tail(sorted), room)
         ELSE <<room>> \o sorted

RECURSIVE sortByCreated(_)
\* list.sort((a, b) => b.created - a.created)
sortByCreated(list) ==
    IF list = <<>> THEN <<>>
    ELSE insertByCreated(sortByCreated(SubSeq(list, 1, Len(list) - 1)),
                         list[Len(list)])

\* the array getActiveRooms returns; the store is not written
getActiveRooms(rs, t) ==
    Answer(rs, TRUE,
           sortByCreated(SelectSeq(rs, LAMBDA room : isActive(room, t))))

updatePlayerInRoom(rs, rid, updatedPlayer, t) ==
    LET ri == roomIndex(rs, rid) IN
    IF ri = 0 THEN Result(rs, FALSE, <<>>)
    ELSE LET room == rs[ri]
             playerIndex == findIndex(room.players, updatedPlayer.id) IN
    IF playerIndex = -1 THEN Result(rs, FALSE, <<>>)
    ELSE Result(setRoom(rs, [room EXCEPT
                    !.players[playerIndex + 1] = updatedPlayer,
                    !.lastActivity = t]),
                TRUE, <<"playerUpdated">>)

\* updateRoom spreading `updates` last: the caller's lastActivity wins
updateRoom_mut(rs, rid, updates, t) ==
    LET ri == roomIndex(rs, rid) IN
    IF ri = 0 THEN Result(rs, FALSE, <<>>)
    ELSE LET room == rs[ri]
             updatedRoom ==
                 [f \in DOMAIN room |->
                     IF f = "key" THEN room.key
                     ELSE IF f \in DOMAIN updates THEN updates[f]
                     ELSE IF f = "lastActivity" THEN t
                     ELSE room[f]]
         IN  Result([i \in 1..Len(rs) |-> IF i = ri THEN updatedRoom ELSE rs[i]],
                    TRUE, <<"roomUpdated">>)

\* `updates` is a record holding some of the fields of a room; the new object
\* is stored under the key roomId, whatever its `id` has become
updateRoom(rs, rid, updates, t) ==
    LET ri == roomIndex(rs, rid) IN
    IF ri = 0 THEN Result(rs, FALSE, <<>>)
    ELSE LET room == rs[ri]
             updatedRoom ==
                 [f \in DOMAIN room |->
                     IF f = "key" THEN room.key
                     ELSE IF f = "lastActivity" THEN t
                     ELSE IF f \in DOMAIN updates THEN updates[f]
                     ELSE room[f]]
         IN  Result([i \in 1..Len(rs) |-> IF i = ri THEN updatedRoom ELSE rs[i]],
                    TRUE, <<"roomUpdated">>)

RECURSIVE winnerFrom(_, _, _, _)
\* the loop of getWinner from players[i - 1] on; `winner` is <<>> for null
winnerFrom(players, i, highestScore, winner) ==
    IF i > Len(players) THEN winner
    ELSE LET player == players[i] IN
         IF beats(player.score, highestScore)
         THEN winnerFrom(players, i + 1, player.score, <<player>>)
         ELSE IF player.score = highestScore /\ highestScore > 0
              THEN winnerFrom(players, i + 1, highestScore,
                              IF winner = <<>> THEN <<player>> ELSE winner)
              ELSE winnerFrom(players, i + 1, highestScore, winner)

\* getWinner returns a player or null
getWinner(rs, rid) ==
    LET ri == roomIndex(rs, rid) IN
    IF ri = 0 THEN Answer(rs, FALSE, <<>>)
    ELSE IF rs[ri].status # "completed" THEN Answer(rs, FALSE, <<>>)
    ELSE LET winner == winnerFrom(rs[ri].players, 1, -1, <<>>)
         IN  Answer(rs, winner # <<>>, winner)

\* `this.rooms.clear()`: every room goes, and no roomRemoved is emitted
shutdown(rs) == Result(<<>>, TRUE, <<>>)

----------------------------------------------------------------------------
(* The state machine *)

\* the entries of `seq` that go with the events of `events` that have a
\* listener: emit runs the listeners of its event if there are any
\* (`if (!this.events[event]) return false`)
Heard(seq, events) ==
    LET idx == SelectSeq([i \in 1..Len(events) |-> i],
                         LAMBDA i : events[i] \in listeners)
    IN  [k \in 1..Len(idx) |-> seq[idx[k]]]

\* `emitted` are the calls of this.emit the method makes, `events` those
\* that reached a listener and `seen` what the listener found in the store;
\* `thrown` tells a method that ended in an exception
Call(op, rid, pid, score, res) ==
    [op |-> op, rid |-> rid, pid |-> pid, score |-> score,
     ret |-> res.ret,
     thrown |-> IF "thrown" \in DOMAIN res THEN res.thrown ELSE FALSE,
     emitted |-> res.events,
     events |-> Heard(res.events, res.events),
     seen |-> Heard(res.seen, res.events),
     value |-> IF "value" \in DOMAIN res THEN res.value ELSE <<>>]

NoCall == [op |-> "none", rid |-> 0, pid |-> 0, score |-> 0,
           ret |-> TRUE, thrown |-> FALSE,
           emitted |-> <<>>, events |-> <<>>, seen |-> <<>>,
           value |-> <<>>]

Init ==
    /\ rooms = <<>>
    /\ now = 0
    /\ last = NoCall
    /\ pc = "free"
    /\ advances = 0
    /\ timer = TRUE
    /\ listeners = {}

\* time passes between calls
Tick ==
    /\ last = NoCall
    /\ now < MaxTicks * TickMs
    /\ now' = now + TickMs
    /\ UNCHANGED <<rooms, last, pc, advances, timer, listeners>>

\* A call runs to completion in one step (the methods are synchronous and the
\* runtime is single-threaded); `last` holds its outcome until Return.
Apply(op, rid, pid, score, res) ==
    /\ last = NoCall
    /\ rooms' = res.rooms
    /\ last' = Call(op, rid, pid, score, res)
    /\ UNCHANGED <<now, pc, advances, timer, listeners>>

\* the caller has taken the return value; the next call may start
Return ==
    /\ last # NoCall
    /\ last' = NoCall
    /\ UNCHANGED <<rooms, now, pc, advances, timer, listeners>>

\* EventEmitter.on(event, listener) for an event of `evs`: from now on emit
\* finds a listener for that event
OnOneOf(evs) ==
    \E event \in evs :
        /\ last = NoCall
        /\ listeners' = listeners \cup {event}
        /\ UNCHANGED <<rooms, now, last, pc, advances, timer>>

\* the callers of Spec listen for the end of a game
On == OnOneOf({"gameCompleted"})

\* EventEmitter.removeAllListeners: `this.events = {}`, and nothing else
RemoveAllListeners ==
    /\ last = NoCall
    /\ listeners' = {}
    /\ UNCHANGED <<rooms, now, last, pc, advances, timer>>

\* shutdown: clearInterval, rooms.clear(), removeAllListeners(); nothing is
\* emitted and nothing returned (`ret` is TRUE as for every call that ends)
Shutdown ==
    /\ last = NoCall
    /\ rooms' = shutdown(rooms).rooms
    /\ timer' = FALSE
    /\ listeners' = {}
    /\ last' = Call("shutdown", 0, 0, 0, shutdown(rooms))
    /\ UNCHANGED <<now, pc, advances>>

\* generateRoomId draws a random id until it is not in the store
CreateRoomWith(shotsOpts) ==
    \E rid \in RoomIds, hostId \in PlayerIds,
       maxPlayers \in MaxPlayersOpts, shotsPerPlayer \in shotsOpts :
        /\ roomIndex(rooms, rid) = 0
        /\ Apply("createRoom", rid, hostId, 0,
                 createRoom(rooms, rid, hostId, maxPlayers, shotsPerPlayer, now))

CreateRoom == CreateRoomWith(ShotsOpts)

\* the player object the caller passes: its shotsRemaining and isConnected are
\* always overwritten, its score and isCurrentTurn only for a new id
AddPlayerToRoom ==
    \E rid \in RoomIds, pid \in PlayerIds, sc \in JoinScores, turn \in BOOLEAN :
        Apply("addPlayer", rid, pid, 0,
              addPlayerToRoom(rooms, rid,
                  [id |-> pid, score |-> sc, shotsRemaining |-> 0,
                   isConnected |-> FALSE, isCurrentTurn |-> turn], now))

RemovePlayerFromRoom ==
    \E rid \in RoomIds, pid \in PlayerIds :
        Apply("removePlayer", rid, pid, 0,
              removePlayerFromRoom(rooms, rid, pid, now))

StartGame ==
    \E rid \in RoomIds :
        Apply("startGame", rid, 0, 0, startGame(rooms, rid, now))

NextTurn ==
    \E rid \in RoomIds :
        Apply("advanceTurn", rid, 0, 0, nextTurn(rooms, rid, now))

\* the guard bounds shotsRemaining (and with it score), which the code leaves
\* unbounded
ShotsInBounds(rid, pid) ==
    LET ri == roomIndex(rooms, rid) IN
    ri # 0 =>
        LET pi == findIndex(rooms[ri].players, pid) IN
        pi # -1 => rooms[ri].players[pi + 1].shotsRemaining > -MaxOverdraw

UpdatePlayerScore ==
    \E rid \in RoomIds, pid \in PlayerIds, score \in ShotScores :
        /\ ShotsInBounds(rid, pid)
        /\ Apply("recordScore", rid, pid, score,
                 updatePlayerScore(rooms, rid, pid, score, now))

ResetGame ==
    \E rid \in RoomIds :
        Apply("resetGame", rid, 0, 0, resetGame(rooms, rid, now))

\* the setInterval callback of the constructor, which runs while the timer
\* is set
CleanupInactiveRooms ==
    /\ timer
    /\ Apply("cleanup", 0, 0, 0, cleanupInactiveRooms(rooms, now))

Next ==
    \/ Tick
    \/ Return
    \/ CreateRoom
    \/ AddPlayerToRoom
    \/ RemovePlayerFromRoom
    \/ StartGame
    \/ NextTurn
    \/ UpdatePlayerScore
    \/ ResetGame
    \/ CleanupInactiveRooms
    \/ On
    \/ RemoveAllListeners
    \/ Shutdown

Spec == Init /\ [][Next]_vars

----------------------------------------------------------------------------
(* SpecGame: the same machine without the clock, with more shots per player *)

CreateRoomGame == CreateRoomWith(1..GameMaxShots)

\* the callers of SpecGame listen for the turn
GameOn == OnOneOf({"turnChanged"})

NextGame ==
    \/ Return
    \/ CreateRoomGame
    \/ AddPlayerToRoom
    \/ RemovePlayerFromRoom
    \/ StartGame
    \/ NextTurn
    \/ UpdatePlayerScore
    \/ ResetGame
    \/ GameOn
    \/ RemoveAllListeners
    \/ Shutdown

SpecGame == Init /\ [][NextGame]_vars

----------------------------------------------------------------------------
(* SpecPlay: one match played by the book.  A room is created and filled,   *)
(* the game is started, and then the turn holder records a shot and the    *)
(* turn is advanced, again and again.                                       *)

PlayIds == 1..PlayMaxPlayers

InitPlay ==
    /\ rooms = <<>>
    /\ now = 0
    /\ last = NoCall
    /\ pc = "create"
    /\ advances = 0
    /\ timer = TRUE
    /\ listeners = {}

Script(op, rid, pid, score, res, nextPc, nextAdvances) ==
    /\ rooms' = res.rooms
    /\ last' = Call(op, rid, pid, score, res)
    /\ pc' = nextPc
    /\ advances' = nextAdvances
    /\ UNCHANGED <<now, timer, listeners>>

PlayCreate ==
    /\ pc = "create"
    /\ \E hostId \in PlayIds, maxPlayers \in 2..PlayMaxPlayers,
          shotsPerPlayer \in 1..PlayMaxShots :
           Script("createRoom", 1, hostId, 0,
                  createRoom(rooms, 1, hostId, maxPlayers, shotsPerPlayer, now),
                  "join", 0)

\* a new player joins with the object the join route builds
PlayJoin ==
    /\ pc = "join"
    /\ \E pid \in PlayIds :
           /\ findIndex(rooms[1].players, pid) = -1
           /\ Len(rooms[1].players) < rooms[1].maxPlayers
           /\ Script("addPlayer", 1, pid, 0,
                     addPlayerToRoom(rooms, 1,
                         [id |-> pid, score |-> 0,
                          shotsRemaining |-> rooms[1].shotsPerPlayer,
                          isConnected |-> TRUE, isCurrentTurn |-> FALSE], now),
                     "join", 0)

PlayStart ==
    /\ pc = "join"
    /\ Len(rooms[1].players) >= 2
    /\ Script("startGame", 1, 0, 0, startGame(rooms, 1, now), "record", 0)

\* the player whose isCurrentTurn is set records a shot
PlayRecord ==
    /\ pc = "record"
    /\ rooms[1].status = "playing"
    /\ \E i \in 1..Len(rooms[1].players), score \in 0..PlayMaxShotScore :
           /\ rooms[1].players[i].isCurrentTurn
           /\ rooms[1].players[i].shotsRemaining > -MaxOverdraw
           /\ Script("recordScore", 1, rooms[1].players[i].id, score,
                     updatePlayerScore(rooms, 1, rooms[1].players[i].id, score, now),
                     "advance", advances)

PlayAdvance ==
    /\ pc = "advance"
    /\ Script("advanceTurn", 1, 0, 0, nextTurn(rooms, 1, now),
              "record", advances + 1)

NextPlay ==
    \/ PlayCreate
    \/ PlayJoin
    \/ PlayStart
    \/ PlayRecord
    \/ PlayAdvance

SpecPlay == InitPlay /\ [][NextPlay]_vars

----------------------------------------------------------------------------
(* SpecWinner: getWinner asked about one room of any status whose players   *)
(* hold any scores, and about an id the store does not hold.                *)

WinnerRoomIds == 1..(MaxRooms + 1)

\* n players in list order with the scores sc[1], ..., sc[n]
WinnerPlayers(n, sc) ==
    [i \in 1..n |-> [ id |-> i,
                      score |-> sc[i],
                      shotsRemaining |-> 0,
                      isConnected |-> TRUE,
                      isCurrentTurn |-> (i = 1) ]]

WinnerRoom(status, players) ==
    [ key |-> 1,
      id |-> 1,
      hostId |-> 1,
      players |-> players,
      maxPlayers |-> WinnerMaxPlayers,
      status |-> status,
      currentPlayerIndex |-> 0,
      shotsPerPlayer |-> 1,
      created |-> 0,
      lastActivity |-> 0 ]

WinnerRooms ==
    UNION { { WinnerRoom(status, WinnerPlayers(n, sc)) :
                  status \in {"waiting", "playing", "completed"},
                  sc \in [1..n -> 0..WinnerMaxScore] } :
            n \in 1..WinnerMaxPlayers }

InitWinner ==
    /\ rooms \in {<<>>} \cup { <<room>> : room \in WinnerRooms }
    /\ now = 0
    /\ last = NoCall
    /\ pc = "free"
    /\ advances = 0
    /\ timer = TRUE
    /\ listeners = {}

GetWinner ==
    \E rid \in WinnerRoomIds :
        Apply("getWinner", rid, 0, 0, getWinner(rooms, rid))

NextWinner ==
    \/ GetWinner
    \/ Return

SpecWinner == InitWinner /\ [][NextWinner]_vars

----------------------------------------------------------------------------
(* SpecLobby: one room being filled.  Players join with player objects of   *)
(* any content, leave, and the game is started and reset; calls are also    *)
(* made with the id of a room that does not exist.                          *)

LobbyPlayerIds == 1..LobbyMaxPlayers

\* the room has id 1; id 2 is never in the store
LobbyRoomIds == 1..2

LobbyCreate ==
    \E hostId \in LobbyPlayerIds, maxPlayers \in 2..LobbyMaxPlayers :
        /\ roomIndex(rooms, 1) = 0
        /\ Apply("createRoom", 1, hostId, 0,
                 createRoom(rooms, 1, hostId, maxPlayers, 1, now))

\* `last.score` keeps the score field of the player object passed in
LobbyJoin ==
    \E rid \in LobbyRoomIds, pid \in LobbyPlayerIds,
       sc \in 0..LobbyMaxJoinScore, shots \in 0..1, flag \in BOOLEAN :
        Apply("addPlayer", rid, pid, sc,
              addPlayerToRoom(rooms, rid,
                  [id |-> pid, score |-> sc, shotsRemaining |-> shots,
                   isConnected |-> flag, isCurrentTurn |-> ~flag], now))

LobbyLeave ==
    \E rid \in LobbyRoomIds, pid \in LobbyPlayerIds :
        Apply("removePlayer", rid, pid, 0,
              removePlayerFromRoom(rooms, rid, pid, now))

LobbyStart ==
    \E rid \in LobbyRoomIds :
        Apply("startGame", rid, 0, 0, startGame(rooms, rid, now))

LobbyReset ==
    \E rid \in LobbyRoomIds :
        Apply("resetGame", rid, 0, 0, resetGame(rooms, rid, now))

\* the callers of SpecLobby listen for arrivals
LobbyOn == OnOneOf({"playerJoined"})

NextLobby ==
    \/ Return
    \/ LobbyCreate
    \/ LobbyJoin
    \/ LobbyLeave
    \/ LobbyStart
    \/ LobbyReset
    \/ LobbyOn
    \/ RemoveAllListeners
    \/ Shutdown

SpecLobby == Init /\ [][NextLobby]_vars

----------------------------------------------------------------------------
(* SpecStore: a store of several rooms, each made and last touched at some  *)
(* time, read at some later time.  The rooms are two-player rooms as        *)
(* createRoom and addPlayerToRoom leave them; startGame (playing) and       *)
(* updateRoom (any status) have set the status.  The store is swept, listed *)
(* and read, rooms are updated and deleted, and the methods that act on a   *)
(* room or on a player are called with ids that are not there.              *)

StoreTimes == {k * StoreTickHours * HourMs : k \in 0..StoreMaxTicks}

\* the store holds the ids 1..n; the id StoreMaxRooms + 1 is never in it
StoreRoomIds == 1..(StoreMaxRooms + 1)

\* the players 1 and 2 are in every room, player 3 in none
StorePlayerIds == 1..3

StorePlayer(pid) ==
    [ id |-> pid,
      score |-> 0,
      shotsRemaining |-> 1,
      isConnected |-> TRUE,
      isCurrentTurn |-> (pid = 1) ]

StoreRoom(rid, status, created, lastActivity) ==
    [ key |-> rid,
      id |-> rid,
      hostId |-> 1,
      players |-> <<StorePlayer(1), StorePlayer(2)>>,
      maxPlayers |-> 2,
      status |-> status,
      currentPlayerIndex |-> 0,
      shotsPerPlayer |-> 1,
      created |-> created,
      lastActivity |-> lastActivity ]

StoreRoomsAt(rid) ==
    { StoreRoom(rid, status, created, lastActivity) :
          status \in {"waiting", "playing", "completed"},
          created \in StoreTimes,
          lastActivity \in StoreTimes }

RECURSIVE StoresOf(_)
\* the stores of n rooms: a Map holds its rooms in the order createRoom
\* made them, and a room is touched no earlier than it is made
StoresOf(n) ==
    IF n = 0 THEN {<<>>}
    ELSE UNION { { Append(rs, room) :
                       room \in { r \in StoreRoomsAt(n) :
                                     /\ r.created <= r.lastActivity
                                     /\ n > 1 => rs[n - 1].created <= r.created } } :
                 rs \in StoresOf(n - 1) }

InitStore ==
    /\ rooms \in UNION { StoresOf(n) : n \in 0..StoreMaxRooms }
    /\ now \in StoreTimes
    /\ \A i \in 1..Len(rooms) : rooms[i].lastActivity <= now
    /\ last = NoCall
    /\ pc = "free"
    /\ advances = 0
    /\ timer = TRUE
    /\ listeners = {}

StoreCleanup ==
    /\ timer
    /\ Apply("cleanup", 0, 0, 0, cleanupInactiveRooms(rooms, now))

StoreList ==
    Apply("listActive", 0, 0, 0, getActiveRooms(rooms, now))

StoreGet ==
    \E rid \in StoreRoomIds :
        Apply("get", rid, 0, 0, getRoom(rooms, rid, now))

StoreGetWinner ==
    \E rid \in StoreRoomIds :
        Apply("getWinner", rid, 0, 0, getWinner(rooms, rid))

StoreDelete ==
    \E rid \in StoreRoomIds :
        Apply("delete", rid, 0, 0, removeRoom(rooms, rid))

\* the updates a caller sends: a status, or an id (which leaves the room
\* under its key)
StoreUpdates ==
    { [status |-> status] : status \in {"waiting", "playing", "completed"} }
        \cup { [id |-> id] : id \in StoreRoomIds }

StoreUpdateRoom ==
    \E rid \in StoreRoomIds, updates \in StoreUpdates :
        Apply("updateRoom", rid, 0, 0, updateRoom(rooms, rid, updates, now))

StoreUpdatePlayer ==
    \E rid \in StoreRoomIds, pid \in StorePlayerIds :
        Apply("updatePlayer", rid, pid, 0,
              updatePlayerInRoom(rooms, rid, StorePlayer(pid), now))

\* the room rid is not in the store
NoRoom(rid) == roomIndex(rooms, rid) = 0

\* the room rid is not in the store, or it is and the player pid is not in it
NoPlayer(rid, pid) ==
    IF NoRoom(rid) THEN TRUE
    ELSE findIndex(rooms[roomIndex(rooms, rid)].players, pid) = -1

StaleAddPlayer ==
    \E rid \in StoreRoomIds, pid \in StorePlayerIds :
        /\ NoRoom(rid)
        /\ Apply("addPlayer", rid, pid, 0,
                 addPlayerToRoom(rooms, rid, StorePlayer(pid), now))

StaleRemovePlayer ==
    \E rid \in StoreRoomIds, pid \in StorePlayerIds :
        /\ NoPlayer(rid, pid)
        /\ Apply("removePlayer", rid, pid, 0,
                 removePlayerFromRoom(rooms, rid, pid, now))

StaleStartGame ==
    \E rid \in StoreRoomIds :
        /\ NoRoom(rid)
        /\ Apply("startGame", rid, 0, 0, startGame(rooms, rid, now))

StaleUpdatePlayerScore ==
    \E rid \in StoreRoomIds, pid \in StorePlayerIds :
        /\ NoPlayer(rid, pid)
        /\ Apply("recordScore", rid, pid, 1,
                 updatePlayerScore(rooms, rid, pid, 1, now))

StaleNextTurn ==
    \E rid \in StoreRoomIds :
        /\ NoRoom(rid)
        /\ Apply("advanceTurn", rid, 0, 0, nextTurn(rooms, rid, now))

StaleResetGame ==
    \E rid \in StoreRoomIds :
        /\ NoRoom(rid)
        /\ Apply("resetGame", rid, 0, 0, resetGame(rooms, rid, now))

\* the callers of SpecStore listen for rooms that go and rooms that change
StoreOn == OnOneOf({"roomRemoved", "roomUpdated"})

NextStore ==
    \/ Return
    \/ StoreCleanup
    \/ StoreList
    \/ StoreGet
    \/ StoreGetWinner
    \/ StoreDelete
    \/ StoreUpdateRoom
    \/ StoreUpdatePlayer
    \/ StaleAddPlayer
    \/ StaleRemovePlayer
    \/ StaleStartGame
    \/ StaleUpdatePlayerScore
    \/ StaleNextTurn
    \/ StaleResetGame
    \/ StoreOn
    \/ RemoveAllListeners
    \/ Shutdown

SpecStore == InitStore /\ [][NextStore]_vars

----------------------------------------------------------------------------
(* SpecLive: a match that callers keep going.  Once the game is started,    *)
(* the turn holder records shots and the turn is advanced, in any order and *)
(* any number of times, and players leave while another connected player    *)
(* stays.  A caller that wants to record a shot, or to advance the turn,    *)
(* and goes on wanting to, gets to do it: both are weakly fair.             *)

\* the players are numbered in the order in which they come: the host is
\* player 1, the k-th player to join is player k + 1
LiveCreate ==
    /\ pc = "create"
    /\ \E shotsPerPlayer \in 1..LiveMaxShots :
           Script("createRoom", 1, 1, 0,
                  createRoom(rooms, 1, 1, LiveMaxPlayers, shotsPerPlayer, now),
                  "join", 0)

LiveJoin ==
    /\ pc = "join"
    /\ \E pid \in {Len(rooms[1].players) + 1} :
           /\ Len(rooms[1].players) < rooms[1].maxPlayers
           /\ Script("addPlayer", 1, pid, 0,
                     addPlayerToRoom(rooms, 1,
                         [id |-> pid, score |-> 0,
                          shotsRemaining |-> rooms[1].shotsPerPlayer,
                          isConnected |-> TRUE, isCurrentTurn |-> FALSE], now),
                     "join", 0)

LiveStart ==
    /\ pc = "join"
    /\ Len(rooms[1].players) >= 2
    /\ Script("startGame", 1, 0, 0, startGame(rooms, 1, now), "live", 0)

\* the player whose isCurrentTurn is set records a shot
LiveRecord ==
    /\ pc = "live"
    /\ rooms[1].status = "playing"
    /\ \E i \in 1..Len(rooms[1].players), score \in 0..LiveMaxShotScore :
           /\ rooms[1].players[i].isCurrentTurn
           /\ rooms[1].players[i].shotsRemaining > -MaxOverdraw
           /\ Script("recordScore", 1, rooms[1].players[i].id, score,
                     updatePlayerScore(rooms, 1, rooms[1].players[i].id, score, now),
                     "live", 0)

LiveAdvance ==
    /\ pc = "live"
    /\ rooms[1].status = "playing"
    /\ Script("advanceTurn", 1, 0, 0, nextTurn(rooms, 1, now), "live", 0)

\* a connected player leaves the game; another connected player stays, so
\* the room stays
LiveLeave ==
    /\ pc = "live"
    /\ rooms[1].status = "playing"
    /\ \E i, j \in 1..Len(rooms[1].players) :
           /\ i # j
           /\ rooms[1].players[i].isConnected
           /\ rooms[1].players[j].isConnected
           /\ Script("removePlayer", 1, rooms[1].players[i].id, 0,
                     removePlayerFromRoom(rooms, 1, rooms[1].players[i].id, now),
                     "live", 0)

NextLive ==
    \/ LiveCreate
    \/ LiveJoin
    \/ LiveStart
    \/ LiveRecord
    \/ LiveAdvance
    \/ LiveLeave

SpecLive ==
    /\ InitPlay
    /\ [][NextLive]_vars
    /\ WF_vars(LiveRecord)
    /\ WF_vars(LiveAdvance)

----------------------------------------------------------------------------
(* SpecTouch: one room, the clock, and every method that is handed a room   *)
(* id: the game methods, getRoom, getWinner, updatePlayerInRoom and         *)
(* updateRoom, the last with a lastActivity, a players list or an id of the *)
(* caller's choosing.                                                       *)

TouchPlayerIds == 1..TouchMaxPlayers

TouchTick ==
    /\ last = NoCall
    /\ now < TouchMaxTicks * TickMs
    /\ now' = now + TickMs
    /\ UNCHANGED <<rooms, last, pc, advances, timer, listeners>>

TouchCreate ==
    \E hostId \in TouchPlayerIds :
        /\ roomIndex(rooms, 1) = 0
        /\ Apply("createRoom", 1, hostId, 0,
                 createRoom(rooms, 1, hostId, TouchMaxPlayers, 1, now))

TouchJoin ==
    \E pid \in TouchPlayerIds :
        Apply("addPlayer", 1, pid, 0,
              addPlayerToRoom(rooms, 1,
                  [id |-> pid, score |-> 0, shotsRemaining |-> 0,
                   isConnected |-> TRUE, isCurrentTurn |-> FALSE], now))

TouchLeave ==
    \E pid \in TouchPlayerIds :
        Apply("removePlayer", 1, pid, 0,
              removePlayerFromRoom(rooms, 1, pid, now))

TouchStart == Apply("startGame", 1, 0, 0, startGame(rooms, 1, now))

TouchRecord ==
    \E pid \in TouchPlayerIds :
        /\ ShotsInBounds(1, pid)
        /\ Apply("recordScore", 1, pid, 1,
                 updatePlayerScore(rooms, 1, pid, 1, now))

TouchAdvance == Apply("advanceTurn", 1, 0, 0, nextTurn(rooms, 1, now))

TouchReset == Apply("resetGame", 1, 0, 0, resetGame(rooms, 1, now))

TouchGet == Apply("get", 1, 0, 0, getRoom(rooms, 1, now))

TouchGetWinner == Apply("getWinner", 1, 0, 0, getWinner(rooms, 1))

\* the caller sends the player back as a fresh, connected player
TouchUpdatePlayer ==
    \E pid \in TouchPlayerIds :
        Apply("updatePlayer", 1, pid, 0,
              updatePlayerInRoom(rooms, 1,
                  [id |-> pid, score |-> 0, shotsRemaining |-> 1,
                   isConnected |-> TRUE, isCurrentTurn |-> FALSE], now))

\* the updates a caller sends to the PUT route, which passes them on as they
\* are: a lastActivity of time 0, an empty players list, another id
TouchUpdates ==
    { [lastActivity |-> 0], [players |-> <<>>], [id |-> 2] }

TouchUpdateRoom ==
    \E updates \in TouchUpdates :
        Apply("updateRoom", 1, 0, 0, updateRoom(rooms, 1, updates, now))

\* the callers of SpecTouch listen for the turn and for departures
TouchOn == OnOneOf({"turnChanged", "playerLeft"})

NextTouch ==
    \/ TouchTick
    \/ Return
    \/ TouchCreate
    \/ TouchJoin
    \/ TouchLeave
    \/ TouchStart
    \/ TouchRecord
    \/ TouchAdvance
    \/ TouchReset
    \/ TouchGet
    \/ TouchGetWinner
    \/ TouchUpdatePlayer
    \/ TouchUpdateRoom
    \/ TouchOn
    \/ RemoveAllListeners
    \/ Shutdown

SpecTouch == Init /\ [][NextTouch]_vars

----------------------------------------------------------------------------
(* Vocabulary of the properties *)

RoomIn(rs, rid) == rs[roomIndex(rs, rid)]

Indices(players) == 0..(Len(players) - 1)

\* a player who can be given the turn: connected, with shots left
Eligible(player) == player.isConnected /\ player.shotsRemaining > 0

EligibleIndices(room) ==
    {i \in Indices(room.players) : Eligible(room.players[i + 1])}

TurnHolders(room) ==
    {i \in Indices(room.players) : room.players[i + 1].isCurrentTurn}

\* the step is a call of `op` that found its room in the store
CallOn(op) ==
    /\ last = NoCall
    /\ last'.op = op
    /\ roomIndex(rooms, last'.rid) # 0

----------------------------------------------------------------------------
(* C1 *)

\* C1: every room that is present in the store has at least one player in
\* its players list.
C1_RoomsHavePlayers ==
    \A i \in 1..Len(rooms) : Len(rooms[i].players) >= 1

\* removePlayer has taken the last player out of a room, and the room is gone
C1_Witness ==
    /\ last.op = "removePlayer"
    /\ last.ret
    /\ last.emitted = <<"roomRemoved">>
    /\ roomIndex(rooms, last.rid) = 0

----------------------------------------------------------------------------
(* C2 *)

\* C2: in a playing room exactly one player has isCurrentTurn, and that
\* player is players[currentPlayerIndex].
C2_OneTurnHolder ==
    \A i \in 1..Len(rooms) :
        rooms[i].status = "playing" =>
            TurnHolders(rooms[i]) = {rooms[i].currentPlayerIndex}

\* advanceTurn has moved the turn of a three-player game off the first player
C2_Witness ==
    /\ last.op = "advanceTurn"
    /\ last.emitted = <<"turnChanged">>
    /\ roomIndex(rooms, last.rid) # 0
    /\ RoomIn(rooms, last.rid).status = "playing"
    /\ Len(RoomIn(rooms, last.rid).players) = 3
    /\ RoomIn(rooms, last.rid).currentPlayerIndex = 2

----------------------------------------------------------------------------
(* C3 *)

\* the status of the room `rid`, present before and after the step, stays or
\* changes as C3 allows
AllowedStatusStep(rid) ==
    LET old == RoomIn(rooms, rid).status
        new == RoomIn(rooms', rid).status
    IN  \/ new = old
        \/ old = "waiting" /\ new = "playing" /\ last'.op = "startGame"
        \/ old = "playing" /\ new = "completed"
               /\ last'.op \in {"advanceTurn", "removePlayer"}
        \/ new = "waiting" /\ last'.op = "resetGame"

\* C3: a room's status changes only waiting -> playing (startGame),
\* playing -> completed (advanceTurn, also inside removePlayer), or to
\* waiting through resetGame; a completed room leaves completed only through
\* resetGame.
C3_StatusPath ==
    [][\A rid \in RoomIds :
            (roomIndex(rooms, rid) # 0 /\ roomIndex(rooms', rid) # 0)
                => AllowedStatusStep(rid)]_vars

----------------------------------------------------------------------------
(* C4 *)

\* C4: every player's shotsRemaining is >= 0.
C4_ShotsNeverNegative ==
    \A i \in 1..Len(rooms) :
        \A j \in 1..Len(rooms[i].players) :
            rooms[i].players[j].shotsRemaining >= 0

----------------------------------------------------------------------------
(* C5 *)

\* the room after a successful recordScore(rid, pid, score): the player has
\* score more points and one shot less, lastActivity aside nothing else differs
RecordScoreFrame(rid, pid, score) ==
    LET old == RoomIn(rooms, rid)
        new == RoomIn(rooms', rid)
        pi  == findIndex(old.players, pid)
    IN  /\ Len(rooms') = Len(rooms)
        /\ \A i \in 1..Len(rooms) : rooms[i].key # rid => rooms'[i] = rooms[i]
        /\ roomIndex(rooms', rid) = roomIndex(rooms, rid)
        /\ pi # -1
        /\ Len(new.players) = Len(old.players)
        /\ \A i \in 1..Len(old.players) :
              i # pi + 1 => new.players[i] = old.players[i]
        /\ new.players[pi + 1].score = old.players[pi + 1].score + score
        /\ new.players[pi + 1].shotsRemaining =
              old.players[pi + 1].shotsRemaining - 1
        /\ new.players[pi + 1].id = pid
        /\ new.players[pi + 1].isConnected = old.players[pi + 1].isConnected
        /\ new.players[pi + 1].isCurrentTurn = old.players[pi + 1].isCurrentTurn
        /\ [new EXCEPT !.players = old.players, !.lastActivity = old.lastActivity]
              = old

\* C5: a successful recordScore(roomId, playerId, s) adds exactly s to that
\* player's score and takes exactly 1 from shotsRemaining; apart from
\* lastActivity nothing else in the room changes, the turn is not advanced.
C5_RecordScoreEffect ==
    [][(CallOn("recordScore") /\ last'.ret)
            => RecordScoreFrame(last'.rid, last'.pid, last'.score)]_vars

\* the turn holder of a started two- or three-player game has recorded a shot
C5_Witness ==
    /\ last.op = "recordScore"
    /\ last.ret
    /\ last.score > 0
    /\ roomIndex(rooms, last.rid) # 0
    /\ RoomIn(rooms, last.rid).status = "playing"
    /\ RoomIn(rooms, last.rid).currentPlayerIndex = 1
    /\ RoomIn(rooms, last.rid).players[2].id = last.pid
    /\ RoomIn(rooms, last.rid).players[2].shotsRemaining = 0

----------------------------------------------------------------------------
(* C6 *)

\* the call recordScore(rid, pid, _) is made on a room holding pid, out of turn
OutOfTurn(rs, rid, pid) ==
    /\ roomIndex(rs, rid) # 0
    /\ findIndex(RoomIn(rs, rid).players, pid) # -1
    /\ ~RoomIn(rs, rid).players[findIndex(RoomIn(rs, rid).players, pid) + 1]
            .isCurrentTurn

\* C6: recordScore for a player of an existing room whose isCurrentTurn is
\* false returns false, emits no event and leaves the whole store unchanged.
C6_OutOfTurnRejected ==
    [][(CallOn("recordScore") /\ OutOfTurn(rooms, last'.rid, last'.pid))
            => (~last'.ret /\ last'.emitted = <<>> /\ rooms' = rooms)]_vars

\* a player of a playing room has recorded out of turn, a day after the
\* room's last activity
C6_Witness ==
    /\ last.op = "recordScore"
    /\ ~last.ret
    /\ OutOfTurn(rooms, last.rid, last.pid)
    /\ RoomIn(rooms, last.rid).status = "playing"
    /\ RoomIn(rooms, last.rid).lastActivity < now

----------------------------------------------------------------------------
(* C7 *)

RECURSIVE RoomsAfter(_, _)
\* the room after 1, 2, ..., k successive nextTurn calls
RoomsAfter(room, k) ==
    IF k = 0 THEN <<>>
    ELSE LET next == nextTurnRoom(room, room.lastActivity).room
         IN  <<next>> \o RoomsAfter(next, k - 1)

\* the distances d >= 1 from the current index at which an eligible player sits
EligibleOffsets(room) ==
    {d \in 1..Len(room.players) :
        Eligible(room.players[((room.currentPlayerIndex + d) % Len(room.players)) + 1])}

\* the index of the j-th eligible player met in circular list order, starting
\* just after the current index
NthEligibleAfter(room, j) ==
    LET d == CHOOSE e \in EligibleOffsets(room) :
                 Cardinality({f \in EligibleOffsets(room) : f < e}) = j - 1
    IN  (room.currentPlayerIndex + d) % Len(room.players)

\* C7: in a playing room with k eligible players (connected, shots left),
\* k successive advanceTurn calls give the turn to each of them exactly
\* once, in circular list order starting just after the current index.
C7_RoundRobin ==
    \A i \in 1..Len(rooms) :
        LET room == rooms[i]
            k == Cardinality(EligibleIndices(room))
        IN  (room.status = "playing" /\ k >= 1) =>
                \A j \in 1..k :
                    LET after == RoomsAfter(room, k)[j]
                    IN  /\ after.status = "playing"
                        /\ EligibleIndices(after) = EligibleIndices(room)
                        /\ after.currentPlayerIndex = NthEligibleAfter(room, j)
                        /\ TurnHolders(after) = {NthEligibleAfter(room, j)}

\* advanceTurn has passed the turn over an ineligible player: in a game of
\* three the second player cannot play and the third has got the turn
C7_Witness ==
    /\ last.op = "advanceTurn"
    /\ last.emitted = <<"turnChanged">>
    /\ roomIndex(rooms, last.rid) # 0
    /\ RoomIn(rooms, last.rid).status = "playing"
    /\ EligibleIndices(RoomIn(rooms, last.rid)) = {0, 2}
    /\ RoomIn(rooms, last.rid).currentPlayerIndex = 2

----------------------------------------------------------------------------
(* C8 *)

\* C8: advanceTurn on a playing room returns true, and it sets status to
\* completed if and only if no player of the room is eligible at the time of
\* the call; while an eligible player exists the room stays playing.
C8_CompletedIffNoneEligible ==
    [][(CallOn("advanceTurn") /\ RoomIn(rooms, last'.rid).status = "playing")
            => /\ last'.ret
               /\ roomIndex(rooms', last'.rid) # 0
               /\ RoomIn(rooms', last'.rid).status \in {"playing", "completed"}
               /\ RoomIn(rooms', last'.rid).status = "completed"
                      <=> EligibleIndices(RoomIn(rooms, last'.rid)) = {}]_vars

\* advanceTurn has completed a game in which one player still had shots but
\* had left and another was connected but had no shots
C8_Witness ==
    /\ last.op = "advanceTurn"
    /\ last.ret
    /\ last.emitted = <<"gameCompleted">>
    /\ roomIndex(rooms, last.rid) # 0
    /\ RoomIn(rooms, last.rid).status = "completed"
    /\ \E i \in 1..Len(RoomIn(rooms, last.rid).players) :
          LET p == RoomIn(rooms, last.rid).players[i]
          IN  ~p.isConnected /\ p.shotsRemaining > 0
    /\ \E i \in 1..Len(RoomIn(rooms, last.rid).players) :
          LET p == RoomIn(rooms, last.rid).players[i]
          IN  p.isConnected /\ p.shotsRemaining <= 0

----------------------------------------------------------------------------
(* C9 *)

\* C9: after an advanceTurn call has moved a room from playing to completed,
\* no player of that room has isCurrentTurn.
C9_NoTurnHolderAfterCompletion ==
    [][(/\ CallOn("advanceTurn")
        /\ RoomIn(rooms, last'.rid).status = "playing"
        /\ roomIndex(rooms', last'.rid) # 0
        /\ RoomIn(rooms', last'.rid).status = "completed")
            => TurnHolders(RoomIn(rooms', last'.rid)) = {}]_vars

----------------------------------------------------------------------------
(* C10 *)

\* C10: in a started room of n >= 2 connected players with shotsPerPlayer = k,
\* played as "the turn holder records a shot, then the turn is advanced",
\* the room is completed exactly from the (n*k)-th advanceTurn on, not
\* earlier, and every player has then used exactly k shots.
C10_CompletedOnLastAdvance ==
    pc \in {"record", "advance"} =>
        LET room == rooms[1]
            n == Len(room.players)
            k == room.shotsPerPlayer
        IN  /\ advances <= n * k
            /\ room.status \in {"playing", "completed"}
            /\ room.status = "completed" <=> advances = n * k
            /\ room.status = "completed" =>
                  \A i \in 1..n : room.players[i].shotsRemaining = 0

\* three players with one shot each: the third advanceTurn has completed the game
C10_Witness ==
    /\ pc = "record"
    /\ Len(rooms[1].players) = 3
    /\ rooms[1].shotsPerPlayer = 1
    /\ advances = 3
    /\ rooms[1].status = "completed"
    /\ last.op = "advanceTurn"

----------------------------------------------------------------------------
(* C11 *)

\* the highest score among the players
MaxScoreOf(players) ==
    CHOOSE m \in {players[i].score : i \in 1..Len(players)} :
        \A i \in 1..Len(players) : players[i].score <= m

\* the position of the first player, in list order, holding the highest score
FirstBest(players) ==
    CHOOSE i \in 1..Len(players) :
        /\ players[i].score = MaxScoreOf(players)
        /\ \A j \in 1..(i - 1) : players[j].score < MaxScoreOf(players)

\* C11: getWinner returns null for an unknown room and for a waiting or
\* playing room; for a completed room whose highest score is positive it
\* returns the first player in list order who holds the highest score.
C11_WinnerIsFirstBest ==
    last.op = "getWinner" =>
        IF roomIndex(rooms, last.rid) = 0
        THEN (~last.ret /\ last.value = <<>>)
        ELSE LET room == RoomIn(rooms, last.rid) IN
             /\ room.status \in {"waiting", "playing"}
                    => (~last.ret /\ last.value = <<>>)
             /\ (room.status = "completed" /\ MaxScoreOf(room.players) > 0)
                    => /\ last.ret
                       /\ last.value = <<room.players[FirstBest(room.players)]>>

\* the winner of a completed game of three has been asked for: the first
\* player is behind, the second and the third are level, the second has won
C11_Witness ==
    /\ last.op = "getWinner"
    /\ roomIndex(rooms, last.rid) # 0
    /\ RoomIn(rooms, last.rid).status = "completed"
    /\ Len(RoomIn(rooms, last.rid).players) = 3
    /\ RoomIn(rooms, last.rid).players[1].score = 1
    /\ RoomIn(rooms, last.rid).players[2].score = 2
    /\ RoomIn(rooms, last.rid).players[3].score = 2
    /\ last.value = <<RoomIn(rooms, last.rid).players[2]>>

----------------------------------------------------------------------------
(* C12 *)

\* C12: for a completed room in which every player has score 0, getWinner
\* returns null.
C12_NoWinnerAtZero ==
    (/\ last.op = "getWinner"
     /\ roomIndex(rooms, last.rid) # 0
     /\ RoomIn(rooms, last.rid).status = "completed"
     /\ MaxScoreOf(RoomIn(rooms, last.rid).players) = 0)
        => (~last.ret /\ last.value = <<>>)

----------------------------------------------------------------------------
(* C13 *)

\* C13: the hostId of every room in the store is the id of a player in that
\* room's players list.
C13_HostIsPlayer ==
    \A i \in 1..Len(rooms) :
        \E j \in 1..Len(rooms[i].players) :
            rooms[i].players[j].id = rooms[i].hostId

\* a player has left a waiting room that keeps two players, and the one who
\* left is not the host of what remains
C13_Witness ==
    /\ last.op = "removePlayer"
    /\ last.ret
    /\ roomIndex(rooms, last.rid) # 0
    /\ RoomIn(rooms, last.rid).status = "waiting"
    /\ Len(RoomIn(rooms, last.rid).players) = 2
    /\ findIndex(RoomIn(rooms, last.rid).players, last.pid) = -1
    /\ RoomIn(rooms, last.rid).hostId = RoomIn(rooms, last.rid).players[1].id

----------------------------------------------------------------------------
(* C14 *)

\* the id of the first player of the list who is connected
FirstConnected(players) ==
    players[CHOOSE i \in 1..Len(players) :
                /\ players[i].isConnected
                /\ \A j \in 1..(i - 1) : ~players[j].isConnected].id

\* C14: when removePlayer succeeds and the room survives, the hostId becomes
\* the id of the first connected player left in the list if the host was
\* removed (and outside a game the host is no longer in the list), and is
\* unchanged if another player was removed.
C14_HostReassigned ==
    [][(CallOn("removePlayer") /\ last'.ret /\ roomIndex(rooms', last'.rid) # 0)
            => LET old == RoomIn(rooms, last'.rid)
                   new == RoomIn(rooms', last'.rid)
               IN  IF last'.pid = old.hostId
                   THEN /\ \E i \in 1..Len(new.players) : new.players[i].isConnected
                        /\ new.hostId = FirstConnected(new.players)
                        /\ new.hostId # last'.pid
                        /\ old.status # "playing"
                              => findIndex(new.players, last'.pid) = -1
                   ELSE new.hostId = old.hostId]_vars

\* the first player of a game of three has left: the player stays in the
\* list, disconnected, and the second player is the host
C14_Witness ==
    /\ last.op = "removePlayer"
    /\ last.ret
    /\ roomIndex(rooms, last.rid) # 0
    /\ RoomIn(rooms, last.rid).status = "playing"
    /\ Len(RoomIn(rooms, last.rid).players) = 3
    /\ RoomIn(rooms, last.rid).players[1].id = last.pid
    /\ ~RoomIn(rooms, last.rid).players[1].isConnected
    /\ RoomIn(rooms, last.rid).players[2].isConnected
    /\ RoomIn(rooms, last.rid).hostId = RoomIn(rooms, last.rid).players[2].id

----------------------------------------------------------------------------
(* C15 *)

\* `new` is `old` reset: scores 0, shots refilled, waiting, the turn at
\* players[0] alone; members, order, connections and the host are kept
IsReset(old, new) ==
    /\ new.status = "waiting"
    /\ new.currentPlayerIndex = 0
    /\ new.hostId = old.hostId
    /\ Len(new.players) = Len(old.players)
    /\ \A i \in 1..Len(old.players) :
          /\ new.players[i].id = old.players[i].id
          /\ new.players[i].isConnected = old.players[i].isConnected
          /\ new.players[i].score = 0
          /\ new.players[i].shotsRemaining = old.shotsPerPlayer
          /\ new.players[i].isCurrentTurn = (i = 1)
    /\ [new EXCEPT !.players = old.players, !.status = old.status,
                   !.currentPlayerIndex = old.currentPlayerIndex,
                   !.lastActivity = old.lastActivity] = old

\* C15: resetGame on an existing room, whatever its status, returns true and
\* leaves the room reset (see IsReset); a second resetGame changes nothing
\* but lastActivity.
C15_ResetEffect ==
    [][CallOn("resetGame")
            => /\ last'.ret
               /\ Len(rooms') = Len(rooms)
               /\ roomIndex(rooms', last'.rid) # 0
               /\ IsReset(RoomIn(rooms, last'.rid), RoomIn(rooms', last'.rid))
               /\ LET again == resetGame(rooms', last'.rid, now + 1).rooms
                  IN  [RoomIn(again, last'.rid) EXCEPT
                          !.lastActivity = RoomIn(rooms', last'.rid).lastActivity]
                      = RoomIn(rooms', last'.rid)]_vars

\* a room of three in which a game was played and the second player left
\* has been reset, some time after it was made
C15_Witness ==
    /\ last.op = "resetGame"
    /\ last.ret
    /\ roomIndex(rooms, last.rid) # 0
    /\ Len(RoomIn(rooms, last.rid).players) = 3
    /\ ~RoomIn(rooms, last.rid).players[2].isConnected
    /\ RoomIn(rooms, last.rid).hostId = RoomIn(rooms, last.rid).players[3].id
    /\ RoomIn(rooms, last.rid).lastActivity > RoomIn(rooms, last.rid).created

----------------------------------------------------------------------------
(* C16 *)

\* C16: startGame on a room with fewer than 2 players returns false, emits
\* no event and leaves the store unchanged.
C16_StartNeedsTwo ==
    [][(CallOn("startGame") /\ Len(RoomIn(rooms, last'.rid).players) < 2)
            => (~last'.ret /\ last'.emitted = <<>> /\ rooms' = rooms)]_vars

\* startGame has been refused on a room that holds its host alone, a day
\* after the room was made
C16_Witness ==
    /\ last.op = "startGame"
    /\ ~last.ret
    /\ roomIndex(rooms, last.rid) # 0
    /\ Len(RoomIn(rooms, last.rid).players) = 1
    /\ RoomIn(rooms, last.rid).status = "waiting"
    /\ RoomIn(rooms, last.rid).players[1].isCurrentTurn
    /\ RoomIn(rooms, last.rid).lastActivity < now

----------------------------------------------------------------------------
(* C17 *)

\* addPlayer on the store rs has a reason to refuse the room rid
JoinRefused(rs, rid) ==
    \/ roomIndex(rs, rid) = 0
    \/ Len(RoomIn(rs, rid).players) >= RoomIn(rs, rid).maxPlayers
    \/ RoomIn(rs, rid).status # "waiting"

\* C17: addPlayer returns false exactly when the room is unknown, full or
\* not waiting, and then the store is unchanged and nothing is emitted; when
\* it succeeds for an id not yet in the room, the player is appended with
\* score 0, shotsRemaining = shotsPerPlayer, isConnected, not isCurrentTurn,
\* and the players already there are unchanged, in the same order.
C17_JoinRule ==
    [][(last = NoCall /\ last'.op = "addPlayer")
            => /\ ~last'.ret <=> JoinRefused(rooms, last'.rid)
               /\ ~last'.ret => (rooms' = rooms /\ last'.emitted = <<>>)
               /\ (last'.ret /\ findIndex(RoomIn(rooms, last'.rid).players,
                                          last'.pid) = -1)
                    => LET old == RoomIn(rooms, last'.rid)
                           new == RoomIn(rooms', last'.rid)
                       IN  /\ Len(new.players) = Len(old.players) + 1
                           /\ SubSeq(new.players, 1, Len(old.players)) = old.players
                           /\ new.players[Len(new.players)] =
                                 [ id |-> last'.pid,
                                   score |-> 0,
                                   shotsRemaining |-> old.shotsPerPlayer,
                                   isConnected |-> TRUE,
                                   isCurrentTurn |-> FALSE ]]_vars

\* a third player, whose player object carried a score, has joined a waiting
\* room (now full) whose second player had rejoined with a score
C17_Witness ==
    /\ last.op = "addPlayer"
    /\ last.ret
    /\ roomIndex(rooms, last.rid) # 0
    /\ Len(RoomIn(rooms, last.rid).players) = 3
    /\ RoomIn(rooms, last.rid).players[3].id = last.pid
    /\ last.score > 0
    /\ RoomIn(rooms, last.rid).players[3].score = 0
    /\ RoomIn(rooms, last.rid).players[2].score > 0

----------------------------------------------------------------------------
(* C18 *)

\* the rooms a sweep at time t must take: last touched more than 24 hours ago
SweptAt(rs, t) == SelectSeq(rs, LAMBDA r : t - r.lastActivity > 24 * HourMs)

\* C18: cleanupInactiveRooms at time now removes exactly the rooms with
\* now - lastActivity > 24 hours, whatever their status, and leaves every
\* other room unchanged and in place; one roomRemoved is emitted per room.
C18_SweepExact ==
    [][(last = NoCall /\ last'.op = "cleanup")
            => /\ rooms' = SelectSeq(rooms,
                               LAMBDA r : ~(now - r.lastActivity > 24 * HourMs))
               /\ last'.emitted =
                     [i \in 1..Len(SweptAt(rooms, now)) |-> "roomRemoved"]]_vars

\* a sweep has taken the first of two rooms and left the second, a completed
\* room last touched exactly 24 hours before
C18_Witness ==
    /\ last.op = "cleanup"
    /\ last.emitted = <<"roomRemoved">>
    /\ Len(rooms) = 1
    /\ rooms[1].key = 2
    /\ rooms[1].status = "completed"
    /\ now - rooms[1].lastActivity = 24 * HourMs

----------------------------------------------------------------------------
(* C19 *)

\* `list` holds exactly the rooms of `wanted`, once each, newest first
ListsNewestFirst(list, wanted) ==
    /\ {list[i] : i \in 1..Len(list)} = wanted
    /\ Len(list) = Cardinality(wanted)
    /\ \A i \in 1..(Len(list) - 1) : list[i].created >= list[i + 1].created

RoomSet(rs) == {rs[i] : i \in 1..Len(rs)}

\* the step is a listActive call that returns exactly the rooms of the store
\* that satisfy `wanted`, newest first, and leaves the store as it was
ListStep(wanted(_)) ==
    (last = NoCall /\ last'.op = "listActive")
        => /\ ListsNewestFirst(last'.value, {r \in RoomSet(rooms) : wanted(r)})
           /\ rooms' = rooms
           /\ last'.emitted = <<>>

\* C19: listActive at time now returns exactly the waiting rooms together
\* with the playing or completed rooms last touched less than 24 hours
\* before now, newest first, and does not modify the store.
C19_ListActive ==
    [][ListStep(LAMBDA r :
            \/ r.status = "waiting"
            \/ /\ r.status \in {"playing", "completed"}
               /\ now - r.lastActivity < 24 * HourMs)]_vars

\* C19 as amended: listActive at time now returns exactly the waiting rooms
\* together with the playing rooms last touched less than 24 hours before
\* now, newest first (a completed room is never returned), and does not
\* modify the store.
C19_ListActiveAmended ==
    [][ListStep(LAMBDA r :
            \/ r.status = "waiting"
            \/ /\ r.status = "playing"
               /\ now - r.lastActivity < 24 * HourMs)]_vars

\* a store of two has been listed: the waiting room, untouched for more
\* than 24 hours, comes after the playing room made later
C19_Witness ==
    /\ last.op = "listActive"
    /\ Len(rooms) = 2
    /\ rooms[1].status = "waiting"
    /\ now - rooms[1].lastActivity > 24 * HourMs
    /\ rooms[2].status = "playing"
    /\ rooms[2].created > rooms[1].created
    /\ last.value = <<rooms[2], rooms[1]>>

----------------------------------------------------------------------------
(* C20 *)

\* the methods that take a room id, and those that also take a player id
RoomOps ==
    {"get", "addPlayer", "removePlayer", "updatePlayer", "updateRoom",
     "startGame", "recordScore", "advanceTurn", "resetGame", "getWinner",
     "delete"}

PlayerOps == {"removePlayer", "recordScore", "updatePlayer"}

\* the call names a room the store rs does not hold, or a player its room
\* does not hold
NotFound(rs, call) ==
    IF roomIndex(rs, call.rid) = 0
    THEN call.op \in RoomOps
    ELSE /\ call.op \in PlayerOps
         /\ findIndex(RoomIn(rs, call.rid).players, call.pid) = -1

\* C20: every method called with a room id that is not in the store, and
\* removePlayer, recordScore and updatePlayer called with a player id that
\* is not in the room, returns false or null without throwing, emits no
\* event and leaves the store unchanged; a room is in the store under the id
\* it was stored with.
C20_NotFoundIsQuiet ==
    [][(last = NoCall /\ NotFound(rooms, last'))
            => /\ ~last'.ret
               /\ ~last'.thrown
               /\ last'.value = <<>>
               /\ last'.emitted = <<>>
               /\ rooms' = rooms]_vars

\* updatePlayer has been refused for a player who is not in the second of
\* two rooms
C20_Witness ==
    /\ last.op = "updatePlayer"
    /\ ~last.ret
    /\ Len(rooms) = 2
    /\ last.rid = 2
    /\ roomIndex(rooms, last.rid) # 0
    /\ findIndex(RoomIn(rooms, last.rid).players, last.pid) = -1


----------------------------------------------------------------------------
(* C21 *)

\* the eligible player met first when going round the list from the place
\* after players[pi]; defined when some player other than players[pi] is
\* eligible
FirstEligibleAfter(room, pi) ==
    LET n == Len(room.players)
        others == EligibleIndices(room) \ {pi}
    IN  CHOOSE i \in others :
            \A j \in others : (i - pi + n) % n <= (j - pi + n) % n

\* C21: removePlayer on a playing room, for a player of that room, leaves the
\* list as long as it was and in the same order, the player at its index with
\* isConnected false; and if the player held the turn while another player
\* was eligible, the turn is then held by the first eligible player after the
\* leaver in circular order.
C21_LeaveKeepsList ==
    [][ (/\ CallOn("removePlayer")
         /\ RoomIn(rooms, last'.rid).status = "playing"
         /\ findIndex(RoomIn(rooms, last'.rid).players, last'.pid) # -1) =>
        LET old == RoomIn(rooms, last'.rid)
            pi == findIndex(old.players, last'.pid)
            left == [old EXCEPT !.players[pi + 1].isConnected = FALSE]
            kept == roomIndex(rooms', last'.rid) # 0
            new == RoomIn(rooms', last'.rid)
        IN  /\ last'.ret
            /\ kept =>
                /\ Len(new.players) = Len(old.players)
                /\ \A i \in 1..Len(old.players) :
                       /\ new.players[i].id = old.players[i].id
                       /\ new.players[i].score = old.players[i].score
                       /\ new.players[i].shotsRemaining = old.players[i].shotsRemaining
                       /\ new.players[i].isConnected =
                              (old.players[i].isConnected /\ i # pi + 1)
            /\ (old.players[pi + 1].isCurrentTurn /\ EligibleIndices(left) # {}) =>
                /\ kept
                /\ new.status = "playing"
                /\ TurnHolders(new) = {FirstEligibleAfter(left, pi)}
                /\ new.currentPlayerIndex = FirstEligibleAfter(left, pi)
      ]_vars

\* the second of three players held the turn and left; the first player had
\* no shot left, so the turn went to the third
C21_Witness ==
    /\ last.op = "removePlayer"
    /\ last.emitted = <<"turnChanged", "playerLeft">>
    /\ roomIndex(rooms, last.rid) # 0
    /\ Len(RoomIn(rooms, last.rid).players) = 3
    /\ RoomIn(rooms, last.rid).players[2].id = last.pid
    /\ ~RoomIn(rooms, last.rid).players[2].isConnected
    /\ RoomIn(rooms, last.rid).players[1].shotsRemaining <= 0
    /\ RoomIn(rooms, last.rid).players[1].isConnected
    /\ RoomIn(rooms, last.rid).currentPlayerIndex = 2


----------------------------------------------------------------------------
(* C22 *)

\* C22: addPlayer with an id that is already in a waiting room that is not
\* full puts the player object passed in at the place of that player: the
\* list keeps its length and its ids, the player has shotsRemaining =
\* shotsPerPlayer and isConnected, and its score is the one passed in,
\* whatever the score was before; the other players are unchanged.
C22_RejoinReplaces ==
    [][ (/\ CallOn("addPlayer")
         /\ RoomIn(rooms, last'.rid).status = "waiting"
         /\ Len(RoomIn(rooms, last'.rid).players) < RoomIn(rooms, last'.rid).maxPlayers
         /\ findIndex(RoomIn(rooms, last'.rid).players, last'.pid) # -1) =>
        LET old == RoomIn(rooms, last'.rid)
            new == RoomIn(rooms', last'.rid)
            pi == findIndex(old.players, last'.pid)
        IN  /\ last'.ret
            /\ Len(new.players) = Len(old.players)
            /\ \A i, j \in 1..Len(new.players) :
                   new.players[i].id = new.players[j].id => i = j
            /\ new.players[pi + 1].id = last'.pid
            /\ new.players[pi + 1].shotsRemaining = old.shotsPerPlayer
            /\ new.players[pi + 1].isConnected
            /\ new.players[pi + 1].score = last'.score
            /\ \A i \in 1..Len(old.players) :
                   i # pi + 1 => new.players[i] = old.players[i]
      ]_vars

\* the first of two players of a waiting room for three has come back with a
\* player object that carries a score and has that score now; the list still
\* ends with the other player
C22_Witness ==
    /\ last.op = "addPlayer"
    /\ last.ret
    /\ last.score > 0
    /\ roomIndex(rooms, last.rid) # 0
    /\ RoomIn(rooms, last.rid).maxPlayers = 3
    /\ Len(RoomIn(rooms, last.rid).players) = 2
    /\ RoomIn(rooms, last.rid).players[1].id = last.pid
    /\ RoomIn(rooms, last.rid).players[1].score = last.score
    /\ RoomIn(rooms, last.rid).players[1].isConnected
    /\ RoomIn(rooms, last.rid).players[2].id # last.pid


----------------------------------------------------------------------------
(* C23 *)

\* some player of the room is connected
HasConnected(room) ==
    \E i \in 1..Len(room.players) : room.players[i].isConnected

\* the players of `room` other than `pid` are all disconnected (or there are
\* none)
OnlyDisconnectedBeside(room, pid) ==
    \A i \in 1..Len(room.players) :
        room.players[i].id # pid => ~room.players[i].isConnected

\* C23: whatever createRoom, addPlayer, removePlayer, startGame, recordScore,
\* advanceTurn and resetGame calls were made, every room in the store has a
\* connected player; a removePlayer that leaves only disconnected players
\* behind deletes the room.
C23_SomeoneConnected ==
    /\ [](\A i \in 1..Len(rooms) : HasConnected(rooms[i]))
    /\ [][ (/\ CallOn("removePlayer")
            /\ findIndex(RoomIn(rooms, last'.rid).players, last'.pid) # -1
            /\ OnlyDisconnectedBeside(RoomIn(rooms, last'.rid), last'.pid)) =>
           /\ last'.ret
           /\ roomIndex(rooms', last'.rid) = 0
           /\ last'.emitted[Len(last'.emitted)] = "roomRemoved"
         ]_vars

\* the last connected player of a game, who held the turn, has left: the game
\* was completed on the way and the room is gone
C23_Witness ==
    /\ last.op = "removePlayer"
    /\ last.ret
    /\ last.emitted = <<"gameCompleted", "roomRemoved">>
    /\ roomIndex(rooms, last.rid) = 0


----------------------------------------------------------------------------
(* C24 *)

\* C24: in a playing room, also one that startGame has started again after
\* resetGame, every player whose isCurrentTurn is true is connected.
C24_TurnHolderConnected ==
    \A i \in 1..Len(rooms) :
        rooms[i].status = "playing" =>
            \A k \in TurnHolders(rooms[i]) : rooms[i].players[k + 1].isConnected


----------------------------------------------------------------------------
(* C25 *)

\* the step is a successful call of one of `ops` on a room that is in the
\* store before and after it, and leaves the room's lastActivity at the
\* current time, not below what it was
TouchStep(ops) ==
    (/\ last = NoCall
     /\ last'.op \in ops
     /\ last'.ret
     /\ roomIndex(rooms, last'.rid) # 0
     /\ roomIndex(rooms', last'.rid) # 0) =>
        /\ RoomIn(rooms', last'.rid).lastActivity = now
        /\ RoomIn(rooms', last'.rid).lastActivity >=
               RoomIn(rooms, last'.rid).lastActivity

MutatingOps ==
    {"addPlayer", "removePlayer", "updatePlayer", "updateRoom",
     "startGame", "recordScore", "advanceTurn", "resetGame"}

\* C25: every successful addPlayer, removePlayer, updatePlayer, updateRoom,
\* startGame, recordScore, advanceTurn and resetGame, and every get and
\* getWinner, sets the room's lastActivity to the current time; lastActivity
\* never decreases and the caller cannot override it.
C25_EveryAccessTouches ==
    [][TouchStep(MutatingOps \cup {"get", "getWinner"})]_vars

\* C25 as the code has it: the mutating methods and get set lastActivity to
\* the current time, whatever lastActivity the caller passes to updateRoom;
\* getWinner leaves the store as it is; lastActivity never decreases.
C25_AccessTouchesAmended ==
    [][ /\ TouchStep(MutatingOps \cup {"get"})
        /\ (last = NoCall /\ last'.op = "getWinner") => rooms' = rooms
        /\ \A i \in 1..Len(rooms) :
               roomIndex(rooms', rooms[i].key) # 0 =>
                   RoomIn(rooms', rooms[i].key).lastActivity >= rooms[i].lastActivity
      ]_vars

\* updateRoom was called with lastActivity 0 two clock steps after the room
\* was made, and the room is dated at the time of the call
C25_Witness ==
    /\ last.op = "updateRoom"
    /\ last.ret
    /\ now = 2 * TickMs
    /\ roomIndex(rooms, last.rid) # 0
    /\ RoomIn(rooms, last.rid).created = 0
    /\ RoomIn(rooms, last.rid).lastActivity = now
    /\ RoomIn(rooms, last.rid).id = last.rid
    /\ Len(RoomIn(rooms, last.rid).players) > 0


----------------------------------------------------------------------------
(* C26 *)

\* C26: when an event reaches a listener, the call that emits it has made
\* all its changes: the store the listener finds is the store as it is once
\* the call has returned, also for the turnChanged and gameCompleted of the
\* nextTurn that removePlayerFromRoom runs.
C26_DeliveredAfterCommit ==
    \A i \in 1..Len(last.seen) : last.seen[i] = rooms


----------------------------------------------------------------------------
(* C27 *)

\* how many times the event `name` is in `events`
Count(events, name) ==
    Cardinality({i \in 1..Len(events) : events[i] = name})

\* the step takes the room of the call from playing to completed; a room that
\* removePlayerFromRoom deletes has been completed on the way exactly when the
\* leaver held the turn (nextTurn ran and found nobody to play on)
Completes ==
    /\ roomIndex(rooms, last'.rid) # 0
    /\ RoomIn(rooms, last'.rid).status = "playing"
    /\ IF roomIndex(rooms', last'.rid) # 0
       THEN RoomIn(rooms', last'.rid).status = "completed"
       ELSE LET old == RoomIn(rooms, last'.rid)
                pi == findIndex(old.players, last'.pid)
            IN  /\ last'.op = "removePlayer"
                /\ pi # -1
                /\ old.players[pi + 1].isCurrentTurn

\* C27: gameCompleted is emitted once by a call that takes a room from
\* playing to completed and by no other call; an advanceTurn that finds an
\* eligible player gives that player the turn, leaves the status playing and
\* emits turnChanged and nothing else.
C27_CompletedOnce ==
    [][ (last = NoCall /\ last'.op # "none") =>
        /\ Count(last'.emitted, "gameCompleted") = IF Completes THEN 1 ELSE 0
        /\ (/\ CallOn("advanceTurn")
            /\ RoomIn(rooms, last'.rid).status = "playing"
            /\ EligibleIndices(RoomIn(rooms, last'.rid)) # {}) =>
               /\ RoomIn(rooms', last'.rid).status = "playing"
               /\ last'.emitted = <<"turnChanged">>
               /\ TurnHolders(RoomIn(rooms', last'.rid)) \subseteq
                      EligibleIndices(RoomIn(rooms, last'.rid))
      ]_vars

\* advanceTurn has given the turn to the last player of a three-player game
\* whose two other players are out of shots, and the game goes on
C27_Witness ==
    /\ last.op = "advanceTurn"
    /\ last.emitted = <<"turnChanged">>
    /\ roomIndex(rooms, last.rid) # 0
    /\ RoomIn(rooms, last.rid).status = "playing"
    /\ Len(RoomIn(rooms, last.rid).players) = 3
    /\ RoomIn(rooms, last.rid).currentPlayerIndex = 2
    /\ RoomIn(rooms, last.rid).players[1].shotsRemaining <= 0
    /\ RoomIn(rooms, last.rid).players[2].shotsRemaining <= 0
    /\ RoomIn(rooms, last.rid).players[3].shotsRemaining > 0


----------------------------------------------------------------------------
(* C28 *)

\* C28: recordScore on a room that is waiting or completed is rejected and
\* changes nothing; while a room stays completed the score and the
\* shotsRemaining of its players stay as they are (so that getWinner keeps
\* giving the same answer).
C28_ScoreOnlyWhilePlaying ==
    [][ /\ (CallOn("recordScore")
              /\ RoomIn(rooms, last'.rid).status # "playing") =>
                (~last'.ret /\ rooms' = rooms)
        /\ \A i \in 1..Len(rooms) :
               (/\ rooms[i].status = "completed"
                /\ roomIndex(rooms', rooms[i].key) # 0
                /\ RoomIn(rooms', rooms[i].key).status = "completed") =>
                   LET new == RoomIn(rooms', rooms[i].key)
                   IN  \A k \in 1..Len(new.players) :
                           \A j \in 1..Len(rooms[i].players) :
                               new.players[k].id = rooms[i].players[j].id =>
                                   /\ new.players[k].score = rooms[i].players[j].score
                                   /\ new.players[k].shotsRemaining =
                                          rooms[i].players[j].shotsRemaining
      ]_vars


----------------------------------------------------------------------------
(* C29 *)

\* the room of the match has the status `status`
MatchIs(status) ==
    /\ Len(rooms) = 1
    /\ rooms[1].status = status

\* C29: a playing room in which the turn holder keeps recording shots and the
\* turn keeps being advanced (both weakly fair), and on which no startGame,
\* resetGame, addPlayer, updatePlayer or updateRoom is called, is completed
\* in the end.
C29_MatchEnds == MatchIs("playing") ~> MatchIs("completed")

\* a game of three players with two shots each has been completed with all
\* players connected and out of shots
C29_Witness ==
    /\ MatchIs("completed")
    /\ last.op = "advanceTurn"
    /\ Len(rooms[1].players) = 3
    /\ rooms[1].shotsPerPlayer = 2
    /\ \A i \in 1..3 :
           /\ rooms[1].players[i].isConnected
           /\ rooms[1].players[i].shotsRemaining <= 0


----------------------------------------------------------------------------
(* C30 *)

\* the scan that nextTurn would run on the room
ScanOf(room) == scanNext(room.players, room.currentPlayerIndex, 0, 0)

\* the positions whose player the scan has looked at: one per iteration, but
\* for the iteration that gives up, which leaves the loop before the test of
\* the player
Examined(room) ==
    LET sc == ScanOf(room)
        looked == IF sc.found THEN sc.steps ELSE sc.steps - 1
    IN  {(room.currentPlayerIndex + k) % Len(room.players) : k \in 1..looked}

\* C30: on a playing room of n >= 1 players the scan of nextTurn ends after
\* at most 2 * n iterations, with a player selected or the game given up, and
\* it gives up only after it has looked at every player, the current one
\* included.
C30_ScanBounded ==
    \A i \in 1..Len(rooms) :
        (rooms[i].status = "playing" /\ Len(rooms[i].players) >= 1) =>
            /\ ScanOf(rooms[i]).steps <= 2 * Len(rooms[i].players)
            /\ ScanOf(rooms[i]).found =>
                   ScanOf(rooms[i]).index \in EligibleIndices(rooms[i])
            /\ ~ScanOf(rooms[i]).found =>
                   Examined(rooms[i]) = Indices(rooms[i].players)

\* advanceTurn has completed a three-player game whose turn was with the
\* first player: the scan went twice round the list, 2 * 3 iterations
C30_Witness ==
    /\ last.op = "advanceTurn"
    /\ last.emitted = <<"gameCompleted">>
    /\ roomIndex(rooms, last.rid) # 0
    /\ Len(RoomIn(rooms, last.rid).players) = 3
    /\ RoomIn(rooms, last.rid).currentPlayerIndex = 0
    /\ ~ScanOf(RoomIn(rooms, last.rid)).found
    /\ ScanOf(RoomIn(rooms, last.rid)).steps = 6

====
